---- MODULE Spec2Model ----
(***************************************************************************)
(* Truncated_Hash (src/lib/hash/trunc_hash/trunc_hash.cpp): a hash         *)
(* function decorator that truncates the digest of a wrapped hash to       *)
(* m_output_bits bits.                                                     *)
(*                                                                         *)
(* Adapter objects live in slots 1..MaxAdapters; each owns (unique_ptr) a  *)
(* wrapped hash object on the heap.  The wrapped hash is an external       *)
(* collaborator: its state is the byte string it has absorbed and its      *)
(* digest is a fixed deterministic function of that string.                *)
(*                                                                         *)
(* Every method call is observed between its entry and its return: the     *)
(* program is single threaded, so while one call is in progress (pc is     *)
(* not "idle") no other call starts.                                       *)
(***************************************************************************)
EXTENDS Integers, Sequences, FiniteSets, TLC

VARIABLES
    m_hash,         \* slot -> heap address of the owned wrapped hash (Null: no object)
    m_output_bits,  \* slot -> the adapter's m_output_bits
    m_buffer,       \* slot -> the adapter's scratch buffer m_buffer
    heap,           \* heap address -> wrapped hash object [len, data]
    pc,             \* position of the call in progress
    call,           \* the call in progress: its arguments, its output span, what it threw
    fed,            \* history: slot -> bytes its caller fed since the stream last started
    born,           \* history: slot -> how the adapter was created
    since           \* history: slot -> what last started its stream (creation, final_result, clear)

vars == <<m_hash, m_output_bits, m_buffer, heap, pc, call, fed, born, since>>

----------------------------------------------------------------------------
(* Bounds of the model *)

\* adapter objects alive at once
MaxAdapters == 2
\* bytes a wrapped hash absorbs before it is finalized or cleared
MaxMsgLen == 2
\* bytes by which an output span may exceed output_length()
MaxExtra == 1

\* byte values the callers feed
InputBytes == {97, 98}
\* native output lengths (bytes) of the wrapped hash types
HashLens == {1, 2}
\* contents of a caller's output span before the call
OutFills == {255}

Null == 0
Slots == 1..MaxAdapters
Addrs == 1..MaxAdapters

RECURSIVE SeqsUpTo(_, _)
SeqsUpTo(S, n) ==
    IF n = 0 THEN {<<>>}
    ELSE LET shorter == SeqsUpTo(S, n - 1)
         IN  shorter \cup {Append(s, x) : s \in {t \in shorter : Len(t) = n - 1}, x \in S}

Messages == SeqsUpTo(InputBytes, MaxMsgLen)

Zeros(n) == [i \in 1..n |-> 0]
Filled(n, b) == [i \in 1..n |-> b]

----------------------------------------------------------------------------
(* The wrapped hash: the incremental hash capability the adapter consumes *)

NoHash == [len |-> 0, data |-> <<>>]

Mix(h, b) == (h * 33 + b + 1) % 65536

RECURSIVE Absorb(_, _)
Absorb(h, m) == IF m = <<>> THEN h ELSE Absorb(Mix(h, Head(m)), Tail(m))

\* the native digest (len bytes, big endian) of message m under the hash type of that length
Digest(len, m) ==
    LET h == Absorb(27145 + 4660 * len, m)
    IN  [i \in 1..len |-> (h \div (2 ^ (8 * (len - i)))) % 256]

\* HashFunction::update
hash_update(h, input) == [h EXCEPT !.data = @ \o input]
\* HashFunction::final(buf): the digest goes to the first output_length() bytes of buf
hash_final_out(h, buf) ==
    [i \in 1..Len(buf) |-> IF i <= h.len THEN Digest(h.len, h.data)[i] ELSE buf[i]]
\* ... and the hash is left in its initial state
hash_final_state(h) == [h EXCEPT !.data = <<>>]
\* HashFunction::clear
hash_clear(h) == [h EXCEPT !.data = <<>>]
\* HashFunction::new_object: same type, initial state
hash_new_object(h) == [len |-> h.len, data |-> <<>>]
\* HashFunction::copy_state: same type, same absorbed state
hash_copy_state(h) == h

----------------------------------------------------------------------------
(* Byte arithmetic *)

RECURSIVE BitAnd(_, _)
BitAnd(x, y) ==
    IF x = 0 \/ y = 0 THEN 0
    ELSE (x % 2) * (y % 2) + 2 * BitAnd(x \div 2, y \div 2)

\* Truncated_Hash::output_length
output_length(bits) == (bits + 7) \div 8

\* variant: the bit count of the last byte taken as m_output_bits % 8
bits_in_last_byte_mod8(bits) == (bits % 8) % 256

\* const uint8_t bits_in_last_byte = ((m_output_bits - 1) % 8) + 1
bits_in_last_byte(bits) == ((((bits - 1) % 8) + 1)) % 256

\* variant: the mask without the complement, keeping the low bits
bitmask_low(bits) == ((2 ^ (8 - bits_in_last_byte(bits))) - 1) % 256

\* const uint8_t bitmask = ~((1 << (8 - bits_in_last_byte)) - 1): the complement is
\* taken in int (32 bit two's complement) and narrowed to uint8_t
bitmask(bits) ==
    LET x == (2 ^ (8 - bits_in_last_byte(bits))) - 1
    IN  ((-x) - 1) % 256

\* std::copy_n(m_buffer.begin(), bytes, out.data())
copy_n(buf, n, out) == [i \in 1..Len(out) |-> IF i <= n THEN buf[i] ELSE out[i]]

\* variant: the scratch buffer left as it is
zeroise_skipped(buf) == buf

\* zeroise(m_buffer)
zeroise(buf) == [i \in 1..Len(buf) |-> 0]

\* out.back() &= bitmask
mask_back(out, mask) == [out EXCEPT ![Len(out)] = BitAnd(@, mask)]

\* variant: the capacity checked in whole bytes, with a truncating division
arg_check_bytes(len, bits) == bits > 0 /\ bits \div 8 <= len

\* BOTAN_ARG_CHECK(bits > 0, ...) and BOTAN_ARG_CHECK(bits <= m_hash->output_length() * 8, ...)
arg_check(len, bits) == bits > 0 /\ bits <= len * 8

\* BOTAN_ASSERT_NOMSG(m_hash->output_length() * 8 >= m_output_bits)
final_assert(len, bits) == len * 8 >= bits

\* variant: only the first byte of the input forwarded
m_hash_update_first(hp, p, input) ==
    [hp EXCEPT ![p] = hash_update(@, IF input = <<>> THEN <<>> ELSE <<Head(input)>>)]

\* m_hash->update(input), on the heap
m_hash_update(hp, p, input) == [hp EXCEPT ![p] = hash_update(@, input)]

\* variant: a copy of the wrapped hash finalized, the owned one left as it was
m_hash_final_of_copy(hp, p) == hp

\* m_hash->final(m_buffer): what it leaves on the heap
m_hash_final(hp, p) == [hp EXCEPT ![p] = hash_final_state(@)]

\* variant: clear() not forwarded
m_hash_clear_dropped(hp, p) == hp

\* m_hash->clear(), on the heap
m_hash_clear(hp, p) == [hp EXCEPT ![p] = hash_clear(@)]

----------------------------------------------------------------------------
(* State *)

NoCall == [op |-> "none", self |-> Null, from |-> Null, bits |-> 0, len |-> 0,
           input |-> <<>>, msg |-> <<>>, since |-> "none", out |-> <<>>, out0 |-> <<>>,
           thrown |-> "none", live0 |-> {}]
NotBorn == [by |-> "none", from |-> Null, bits |-> 0, len |-> 0, msg |-> <<>>]

Live == {a \in Slots : m_hash[a] # Null}
FreeSlot == CHOOSE a \in Slots \ Live : \A b \in Slots \ Live : a <= b
UsedAddrs == {p \in Addrs : heap[p] # NoHash}
FreeAddr == CHOOSE p \in Addrs \ UsedAddrs : \A q \in Addrs \ UsedAddrs : p <= q
CanAllocate == Slots \ Live # {} /\ Addrs \ UsedAddrs # {}

Init ==
    /\ m_hash = [a \in Slots |-> Null]
    /\ m_output_bits = [a \in Slots |-> 0]
    /\ m_buffer = [a \in Slots |-> <<>>]
    /\ heap = [p \in Addrs |-> NoHash]
    /\ pc = "idle"
    /\ call = NoCall
    /\ fed = [a \in Slots |-> <<>>]
    /\ born = [a \in Slots |-> NotBorn]
    /\ since = [a \in Slots |-> "none"]

----------------------------------------------------------------------------
(* Operations *)

\* Truncated_Hash::Truncated_Hash(hash, bits), entered from `op` (the caller's own
\* construction, new_object or copy_state of adapter `from`).  h is the hash object
\* moved in.  stream and want are what the caller is entitled to expect of the new
\* adapter: the bytes its stream starts with and its bit length.
Truncated_Hash(op, from, h, bits, stream, want) ==
    LET a == FreeSlot
        p == FreeAddr
        c == [NoCall EXCEPT !.op = op, !.from = from, !.bits = want, !.len = h.len,
                            !.msg = stream, !.live0 = Live]
    IN  IF arg_check(h.len, bits)
        THEN /\ heap' = [heap EXCEPT ![p] = h]
             /\ m_hash' = [m_hash EXCEPT ![a] = p]
             /\ m_output_bits' = [m_output_bits EXCEPT ![a] = bits]
             /\ m_buffer' = [m_buffer EXCEPT ![a] = Zeros(h.len)]
             /\ fed' = [fed EXCEPT ![a] = stream]
             /\ born' = [born EXCEPT ![a] = [by |-> op, from |-> from, bits |-> want,
                                                len |-> h.len, msg |-> stream]]
             /\ pc' = "returned"
             /\ since' = [since EXCEPT ![a] = "created"]
             /\ call' = [c EXCEPT !.self = a]
        ELSE /\ pc' = "thrown"
             /\ call' = [c EXCEPT !.thrown = "Invalid_Argument"]
             /\ UNCHANGED <<m_hash, m_output_bits, m_buffer, heap, fed, born, since>>

\* the callers of one run configure the adapters they hold at once alike: a
\* configuration the constructor can accept is that of the live adapters
LikeTheLive(len, bits) ==
    bits \in 1..(8 * len) => \A a \in Live : heap[m_hash[a]].len = len /\ m_output_bits[a] = bits

\* a caller constructs an adapter over a freshly created hash of native length len
Construct(len, bits) ==
    /\ pc = "idle"
    /\ CanAllocate
    /\ LikeTheLive(len, bits)
    /\ Truncated_Hash("Truncated_Hash", Null, [len |-> len, data |-> <<>>], bits, <<>>, bits)

\* Truncated_Hash::add_data
add_data(a, input) ==
    /\ pc = "idle"
    /\ a \in Live
    /\ Len(heap[m_hash[a]].data) + Len(input) <= MaxMsgLen
    /\ heap' = m_hash_update(heap, m_hash[a], input)
    /\ fed' = [fed EXCEPT ![a] = @ \o input]
    /\ pc' = "returned"
    /\ call' = [NoCall EXCEPT !.op = "add_data", !.self = a, !.input = input, !.msg = fed[a]]
    /\ UNCHANGED <<m_hash, m_output_bits, m_buffer, born, since>>

\* Truncated_Hash::clear
clear(a) ==
    /\ pc = "idle"
    /\ a \in Live
    /\ heap' = m_hash_clear(heap, m_hash[a])
    /\ fed' = [fed EXCEPT ![a] = <<>>]
    /\ pc' = "returned"
    /\ call' = [NoCall EXCEPT !.op = "clear", !.self = a, !.msg = fed[a]]
    /\ since' = [since EXCEPT ![a] = "clear"]
    /\ UNCHANGED <<m_hash, m_output_bits, m_buffer, born>>

\* variant: new_object wrapping m_hash->copy_state()
new_object_with_state(a) ==
    /\ pc = "idle"
    /\ a \in Live
    /\ CanAllocate
    /\ Truncated_Hash("new_object", a, hash_copy_state(heap[m_hash[a]]), m_output_bits[a],
                      <<>>, m_output_bits[a])

\* Truncated_Hash::new_object
new_object(a) ==
    /\ pc = "idle"
    /\ a \in Live
    /\ CanAllocate
    /\ Truncated_Hash("new_object", a, hash_new_object(heap[m_hash[a]]), m_output_bits[a],
                      <<>>, m_output_bits[a])

\* variant: copy_state wrapping m_hash->new_object()
copy_state_fresh(a) ==
    /\ pc = "idle"
    /\ a \in Live
    /\ CanAllocate
    /\ Truncated_Hash("copy_state", a, hash_new_object(heap[m_hash[a]]), m_output_bits[a],
                      fed[a], m_output_bits[a])

\* Truncated_Hash::copy_state
copy_state(a) ==
    /\ pc = "idle"
    /\ a \in Live
    /\ CanAllocate
    /\ Truncated_Hash("copy_state", a, hash_copy_state(heap[m_hash[a]]), m_output_bits[a],
                      fed[a], m_output_bits[a])

\* Truncated_Hash::final_result(out), up to the copy into out: out is a span of n
\* bytes, n >= output_length(), holding fill
final_result(a, n, fill) ==
    /\ pc = "idle"
    /\ a \in Live
    /\ n >= output_length(m_output_bits[a])
    /\ LET h == heap[m_hash[a]]
           c == [NoCall EXCEPT !.op = "final_result", !.self = a, !.msg = fed[a],
                               !.since = since[a],
                               !.bits = m_output_bits[a], !.len = h.len,
                               !.out = Filled(n, fill), !.out0 = Filled(n, fill)]
       IN  IF final_assert(h.len, m_output_bits[a])
           THEN LET buf == hash_final_out(h, m_buffer[a])
                IN  /\ heap' = m_hash_final(heap, m_hash[a])
                    /\ m_buffer' = [m_buffer EXCEPT ![a] = buf]
                    /\ fed' = [fed EXCEPT ![a] = <<>>]
                    /\ call' = [c EXCEPT !.out = copy_n(buf, output_length(m_output_bits[a]), @)]
                    /\ pc' = "final_zeroise"
                    /\ since' = [since EXCEPT ![a] = "final_result"]
           ELSE /\ pc' = "thrown"
                /\ call' = [c EXCEPT !.thrown = "Assertion_Failure"]
                /\ UNCHANGED <<heap, m_buffer, fed, since>>
    /\ UNCHANGED <<m_hash, m_output_bits, born>>

\* ... zeroise(m_buffer)
final_result_zeroise ==
    /\ pc = "final_zeroise"
    /\ m_buffer' = [m_buffer EXCEPT ![call.self] = zeroise(@)]
    /\ pc' = "final_mask"
    /\ UNCHANGED <<m_hash, m_output_bits, heap, call, fed, born, since>>

\* ... the mask on the last byte, and the return
final_result_mask ==
    /\ pc = "final_mask"
    /\ call' = [call EXCEPT !.out = mask_back(@, bitmask(m_output_bits[call.self]))]
    /\ pc' = "returned"
    /\ UNCHANGED <<m_hash, m_output_bits, m_buffer, heap, fed, born, since>>

\* control is back at the caller (a normal return or a propagated exception)
Return ==
    /\ pc \in {"returned", "thrown"}
    /\ pc' = "idle"
    /\ call' = NoCall
    /\ UNCHANGED <<m_hash, m_output_bits, m_buffer, heap, fed, born, since>>

MaxBits == 8 * (CHOOSE l \in HashLens : \A k \in HashLens : k <= l)

Next ==
    \/ \E len \in HashLens, bits \in 0..(MaxBits + 1) : Construct(len, bits)
    \/ \E a \in Slots, input \in Messages : add_data(a, input)
    \/ \E a \in Slots : clear(a)
    \/ \E a \in Slots : new_object(a)
    \/ \E a \in Slots : copy_state(a)
    \/ \E a \in Slots, n \in 1..(output_length(MaxBits) + MaxExtra), fill \in OutFills :
          final_result(a, n, fill)
    \/ final_result_zeroise
    \/ final_result_mask
    \/ Return

Spec == Init /\ [][Next]_vars

----------------------------------------------------------------------------
(* What the adapter's contract promises, stated without the code's formulas *)

\* ceil(bits / 8)
CeilDiv8(bits) == CHOOSE n \in 0..bits : 8 * n >= bits /\ 8 * n < bits + 8

\* how many bits of the last byte belong to the truncated digest
KeptBits(bits) == ((bits - 1) % 8) + 1

\* the byte whose top k bits are set
TopMask(k) == 256 - 2 ^ (8 - k)

\* the digest of message m under the hash of native length len, truncated to bits
Truncated(len, bits, m) ==
    LET d == Digest(len, m)
        n == CeilDiv8(bits)
    IN  [i \in 1..n |-> IF i < n THEN d[i] ELSE BitAnd(d[i], TopMask(KeptBits(bits)))]

\* a final_result call has returned
FinalReturned == pc = "returned" /\ call.op = "final_result"

\* finalize: final_result on an output of exactly output_length() bytes has returned
Finalize == FinalReturned /\ Len(call.out0) = output_length(call.bits)

\* a final_result call is in progress or has returned
InFinal == pc \in {"final_zeroise", "final_mask", "returned"} /\ call.op = "final_result"

\* the wrapped hash object adapter a owns
Owned(a) == heap[m_hash[a]]

----------------------------------------------------------------------------
(* C1 *)

\* C1: for every adapter with 1 <= outputBits <= native bits and every message,
\* finalize returns exactly outputLength() = ceil(outputBits/8) bytes; every byte
\* but the last is the native digest's byte, the last is the native digest's byte
\* ANDed with the mask of its top ((outputBits-1) mod 8)+1 bits, so its remaining
\* low bits are zero.
C1_TruncatedDigest ==
    /\ \A a \in Live : output_length(m_output_bits[a]) = CeilDiv8(m_output_bits[a])
    /\ Finalize =>
        LET d == Digest(call.len, call.msg)
            n == CeilDiv8(call.bits)
            k == KeptBits(call.bits)
        IN  /\ 1 <= call.bits /\ call.bits <= 8 * call.len
            /\ Len(call.out) = n
            /\ \A i \in 1..(n - 1) : call.out[i] = d[i]
            /\ call.out[n] = BitAnd(d[n], TopMask(k))
            /\ call.out[n] % (2 ^ (8 - k)) = 0

\* 12 bits of a 2-byte digest whose second byte has low bits set: 2 bytes come
\* back, the second with its low 4 bits cleared
C1_Witness ==
    /\ Finalize
    /\ call.bits = 12
    /\ Digest(call.len, call.msg)[2] % 16 # 0
    /\ Len(call.out) = 2
    /\ call.out[2] % 16 = 0

----------------------------------------------------------------------------
(* C2 *)

\* C2: construction succeeds exactly when 1 <= outputBits <= 8 x the wrapped
\* hash's native length; otherwise it fails with an invalid-argument error,
\* produces no adapter, and never clamps outputBits.
C2_ConstructionCheck ==
    call.op = "Truncated_Hash" =>
        /\ pc = "returned" =>
            /\ 1 <= call.bits /\ call.bits <= 8 * call.len
            /\ call.self \notin call.live0
            /\ Live = call.live0 \cup {call.self}
            /\ m_output_bits[call.self] = call.bits
            /\ Owned(call.self).len = call.len
        /\ pc = "thrown" =>
            /\ call.bits = 0 \/ call.bits > 8 * call.len
            /\ call.thrown = "Invalid_Argument"
            /\ Live = call.live0
            /\ \A a \in Slots \ Live : m_output_bits[a] = 0 /\ m_buffer[a] = <<>>
            /\ Cardinality({p \in Addrs : heap[p] # NoHash}) = Cardinality(Live)

\* one bit more than the native length is refused, beside an adapter that was accepted
C2_Witness ==
    /\ pc = "thrown"
    /\ call.op = "Truncated_Hash"
    /\ call.bits = 8 * call.len + 1
    /\ \E a \in Live : m_output_bits[a] = 8 * Owned(a).len

----------------------------------------------------------------------------
(* C3 *)

\* the adapters made by copy_state, each with the adapter it was copied from
Copies == {c \in Live : born[c].by = "copy_state"}

\* C3: after copy_state on an adapter that absorbed a prefix p, the original and
\* the copy are independent: each one's wrapped hash holds p plus the bytes fed to
\* that adapter alone, and its finalize returns the truncated digest of exactly
\* those bytes; the copy has the original's outputBits, and taking the copy leaves
\* the original's accumulated state as it was.
C3_CopyStateIsolation ==
    /\ (pc = "returned" /\ call.op = "copy_state") =>
        /\ call.self # call.from
        /\ Owned(call.self).data = call.msg
        /\ Owned(call.from).data = call.msg
        /\ m_output_bits[call.self] = m_output_bits[call.from]
        /\ m_output_bits[call.from] = call.bits
        /\ m_buffer[call.from] = Zeros(Owned(call.from).len)
    /\ \A c \in Copies :
        LET o == born[c].from
        IN  /\ m_hash[c] # m_hash[o]
            /\ Owned(c).data = fed[c]
            /\ Owned(o).data = fed[o]
            /\ Owned(c).len = Owned(o).len
            /\ m_output_bits[c] = m_output_bits[o]
    /\ (Finalize /\ \E c \in Copies : call.self \in {c, born[c].from}) =>
        call.out = Truncated(call.len, call.bits, call.msg)

\* a copy taken after the prefix <<97>>; the copy was then fed 98 and the original
\* 97, and the copy's finalize has returned
C3_Witness ==
    /\ Finalize
    /\ call.self \in Copies
    /\ born[call.self].msg = <<97>>
    /\ call.msg = <<97, 98>>
    /\ fed[born[call.self].from] = <<97, 97>>
    /\ call.bits = 16

----------------------------------------------------------------------------
(* C4 *)

----------------------------------------------------------------------------
(* C5 *)

\* C5: when outputBits is a multiple of 8 the mask is 0xFF and finalize returns
\* the first outputBits/8 bytes of the wrapped hash's digest unmodified; with
\* outputBits the native bit length it returns the whole digest.
C5_ByteAligned ==
    (Finalize /\ call.bits % 8 = 0) =>
        LET d == Digest(call.len, call.msg)
        IN  /\ bitmask(call.bits) = 255
            /\ call.out = SubSeq(d, 1, call.bits \div 8)
            /\ call.bits = 8 * call.len => call.out = d

\* the full 16 bits of a 2-byte digest whose last byte is odd
C5_Witness ==
    /\ Finalize
    /\ call.len = 2
    /\ call.bits = 16
    /\ call.msg # <<>>
    /\ Digest(call.len, call.msg)[2] % 2 = 1
    /\ call.out[2] % 2 = 1

----------------------------------------------------------------------------
(* C6 *)

\* C6: update forwards its bytes verbatim, in call order, unbuffered: after every
\* update the wrapped hash has absorbed what it had plus the input, finalize
\* returns the truncated digest of the concatenation of all chunks, and two
\* adapters of one configuration fed the same message hold hashes in the same state.
C6_UpdateForwards ==
    /\ (pc = "returned" /\ call.op = "add_data") =>
        Owned(call.self).data = call.msg \o call.input
    /\ Finalize => call.out = Truncated(call.len, call.bits, call.msg)
    /\ \A a, b \in Live :
        (/\ Owned(a).len = Owned(b).len
         /\ m_output_bits[a] = m_output_bits[b]
         /\ fed[a] = fed[b]) => Owned(a) = Owned(b)

\* a second, different chunk has been fed after a first one
C6_Witness ==
    /\ pc = "returned"
    /\ call.op = "add_data"
    /\ call.msg = <<97>>
    /\ call.input = <<98>>
    /\ \E b \in Live \ {call.self} : fed[b] = <<97, 98>> /\ born[b].by = "Truncated_Hash"

----------------------------------------------------------------------------
(* C7 *)

\* the adapters made by new_object
Fresh == {c \in Live : born[c].by = "new_object"}

\* C7: new_object on an adapter in any state returns an adapter with the same
\* outputBits whose wrapped hash is empty; its finalize result depends only on the
\* bytes fed to it, and the call leaves the original's accumulated state and
\* outputBits as they were.
C7_NewObjectFresh ==
    /\ (pc = "returned" /\ call.op = "new_object") =>
        /\ call.self # call.from
        /\ Owned(call.self).data = <<>>
        /\ Owned(call.self).len = Owned(call.from).len
        /\ m_output_bits[call.self] = m_output_bits[call.from]
        /\ m_output_bits[call.from] = call.bits
        /\ Owned(call.from).data = fed[call.from]
        /\ m_buffer[call.self] = Zeros(Owned(call.self).len)
    /\ \A c \in Fresh :
        LET o == born[c].from
        IN  /\ m_hash[c] # m_hash[o]
            /\ Owned(c).data = fed[c]
            /\ Owned(o).data = fed[o]
            /\ m_output_bits[c] = m_output_bits[o]
    /\ (Finalize /\ call.self \in Fresh) =>
        call.out = Truncated(call.len, call.bits, call.msg)

\* new_object on an accumulating adapter: the new adapter was fed <<98>> and
\* finalized, the original still holds its own bytes
C7_Witness ==
    /\ Finalize
    /\ call.self \in Fresh
    /\ call.msg = <<98>>
    /\ fed[born[call.self].from] = <<97, 97>>
    /\ call.bits = 9

----------------------------------------------------------------------------
(* C8 *)

\* C8: clear returns the wrapped hash to its empty state, so the next finalize
\* depends only on the bytes fed after it, and leaves outputBits alone; outputBits
\* keeps its construction-time value, within 1..native bits, through every
\* sequence of calls, so the assertion at the start of final_result never fails.
C8_ClearAndOutputBits ==
    /\ (pc = "returned" /\ call.op = "clear") => Owned(call.self).data = <<>>
    /\ (Finalize /\ call.since = "clear") =>
        call.out = Truncated(call.len, call.bits, call.msg)
    /\ \A a \in Live :
        /\ m_output_bits[a] = born[a].bits
        /\ 1 <= m_output_bits[a]
        /\ m_output_bits[a] <= 8 * Owned(a).len
        /\ Owned(a).len = born[a].len
    /\ call.thrown # "Assertion_Failure"

\* clear on an adapter that had absorbed two bytes
C8_Witness ==
    /\ pc = "returned"
    /\ call.op = "clear"
    /\ Len(call.msg) = 2
    /\ since[call.self] = "clear"
    /\ m_output_bits[call.self] = 5

----------------------------------------------------------------------------
(* C9 *)

\* C9: the scratch buffer has the wrapped hash's native length and is all zero
\* after construction and after every final_result, in every state outside the
\* call; inside the call it is zeroed after the first outputBytes bytes were
\* copied out and before the last byte is masked.
C9_ScratchZeroised ==
    /\ \A a \in Live :
        (pc = "final_zeroise" /\ call.self = a) \/ m_buffer[a] = Zeros(Owned(a).len)
    /\ (pc = "final_zeroise") =>
        /\ m_buffer[call.self] = Digest(call.len, call.msg)
        /\ \A i \in 1..CeilDiv8(call.bits) : call.out[i] = Digest(call.len, call.msg)[i]
    /\ (pc = "final_mask") =>
        /\ m_buffer[call.self] = Zeros(call.len)
        /\ \A i \in 1..CeilDiv8(call.bits) : call.out[i] = Digest(call.len, call.msg)[i]

\* one byte of a 2-byte digest was copied out, the digest's unreleased second byte
\* was not zero, and the buffer is zero before the mask is applied
C9_Witness ==
    /\ pc = "final_mask"
    /\ call.len = 2
    /\ call.bits = 3
    /\ Digest(call.len, call.msg)[2] # 0
    /\ call.out[1] # BitAnd(call.out[1], TopMask(3))
    /\ m_buffer[call.self] = <<0, 0>>

----------------------------------------------------------------------------
(* C10 *)

\* C10: for every output span of at least outputBytes bytes passed to
\* final_result, the mask is applied to the byte at index outputBytes-1 (the last
\* byte of the truncated digest), and every byte at index >= outputBytes is left
\* unchanged.
C10_MaskAtLastDigestByte ==
    FinalReturned =>
        LET d == Digest(call.len, call.msg)
            n == output_length(call.bits)
        IN  /\ call.out[n] = BitAnd(d[n], TopMask(KeptBits(call.bits)))
            /\ \A i \in (n + 1)..Len(call.out) : call.out[i] = call.out0[i]

====
